---------------------------- MODULE Spec2Model ----------------------------
(***************************************************************************)
(* A model of docker_tree.py: the forest of docker images built from the   *)
(* records of `docker inspect`, the extraction of the family of the target *)
(* images, the ordering of the listings, the tree renderer and its size    *)
(* and time pretty-printers.                                               *)
(*                                                                         *)
(* Text is modelled as text.  The box-drawing characters of the source are *)
(* written in ASCII, one character for one character:                      *)
(*     U+251C tee       is "+"      U+2514 corner     is "'"               *)
(*     U+2502 vertical  is "|"      U+2500 horizontal is "-"               *)
(*     U+2022 bullet    is "*"      U+250C top corner is ","               *)
(* A multi-line string is the sequence of its lines.                       *)
(*                                                                         *)
(* Python integers are unbounded, the integers of the model checker are    *)
(* 32 bits wide.  A byte count is therefore held as a sign and a sequence  *)
(* of base-1024 digits, least significant first (PyInt below), so that the *)
(* powers of 1024 that pretty_size divides by are shifts.                  *)
(***************************************************************************)
EXTENDS Integers, Sequences, FiniteSets, TLC

VARIABLES
    store,      \* the records `docker inspect` returns for the local images
    CLArgs,     \* CLArgs.instance: the parsed command line
    pc,         \* where main() is: "main", "images", "targets", "exit"
    images,     \* main's images, once get_images has returned
    target_ids, \* main's target_ids
    subimages,  \* the Images that cook_subimages returned
    stdout,     \* the lines printed
    stderr,     \* the lines written to the standard error
    exit_code,  \* the exit status of the process, -1 while it runs
    called,     \* the function applied to its argument, "" before the call
    bytes,      \* the argument of pretty_size
    node,       \* the Image that pretty_time and __repr__ are applied to
    r           \* the string the function returned

vars == <<store, CLArgs, pc, images, target_ids, subimages, stdout, stderr,
          exit_code, called, bytes, node, r>>

prog_vars == <<store, CLArgs, pc, images, target_ids, subimages, stdout, stderr, exit_code>>
call_vars == <<called, bytes, node, r>>

None == "None"

(***************************************************************************)
(* Small text helpers.                                                     *)
(***************************************************************************)
fmt02d(n) == IF n < 10 THEN "0" \o ToString(n) ELSE ToString(n)

(***************************************************************************)
(* Python integers.                                                        *)
(***************************************************************************)
Base == 1024

RECURSIVE LimbsOf(_)
LimbsOf(n) == IF n = 0 THEN <<>> ELSE <<n % Base>> \o LimbsOf(n \div Base)

PyInt(n) == [neg |-> n < 0, limbs |-> LimbsOf(IF n < 0 THEN 0 - n ELSE n)]

limb(x, j) == IF j >= 1 /\ j <= Len(x.limbs) THEN x.limbs[j] ELSE 0

RECURSIVE IntOf(_)
IntOf(ls) == IF ls = <<>> THEN 0 ELSE Head(ls) + Base * IntOf(Tail(ls))

IsZero(ls) == \A j \in 1..Len(ls) : ls[j] = 0

\* the digits of x from position k+1 on: floor(|x| / 1024^k)
Shifted(x, k) == IF k >= Len(x.limbs) THEN <<>> ELSE SubSeq(x.limbs, k + 1, Len(x.limbs))

\* the digits of x below position k+1, padded to k digits: |x| mod 1024^k
Low(x, k) == [j \in 1..k |-> limb(x, j)]

\* str(x) of a Python integer whose magnitude fits the checker
pystr(x) == IF x.neg THEN "-" \o ToString(IntOf(x.limbs)) ELSE ToString(IntOf(x.limbs))

\* x < c for a small non-negative c
LessThan(x, c) == x.neg \/ (IsZero(Shifted(x, 1)) /\ limb(x, 1) < c)

(***************************************************************************)
(* Division of a non-negative Python integer by 1024^k, as far as _to_k    *)
(* needs it.  x / 1024^k = Shifted(x, k) + Low(x, k) / 1024^k.             *)
(***************************************************************************)
\* x / 1024^k < c, for 0 < c <= 1024
QuotBelow(x, k, c) == IsZero(Shifted(x, k + 1)) /\ limb(x, k + 1) < c

\* m * (fraction ls / 1024^Len(ls)): <<integer part, fraction digits>>
RECURSIVE MulFrac(_, _, _)
MulFrac(ls, m, carry) ==
    IF ls = <<>> THEN <<carry, <<>>>>
    ELSE LET t    == m * Head(ls) + carry
             rest == MulFrac(Tail(ls), m, t \div Base)
         IN  <<rest[1], <<t % Base>> \o rest[2]>>

\* the fraction ls / 1024^Len(ls) compared with one half: -1, 0, 1
HalfCmp(ls) ==
    IF ls = <<>> THEN -1
    ELSE LET top == ls[Len(ls)]
         IN  IF top > Base \div 2 THEN 1
             ELSE IF top < Base \div 2 THEN -1
             ELSE IF IsZero(SubSeq(ls, 1, Len(ls) - 1)) THEN 0
             ELSE 1

\* rounding with the ties upwards; C6 tells the two apart
RoundHalfUp(q, c) == IF c >= 0 THEN q + 1 ELSE q

\* Python's round() of q + f for an integer q and a fraction f compared with
\* one half by c: ties go to the even neighbour
RoundHalfEven(q, c) ==
    IF c > 0 THEN q + 1
    ELSE IF c < 0 THEN q
    ELSE IF q % 2 = 0 THEN q ELSE q + 1

\* round(m * x / 1024^k)
RoundScaled(x, k, m) ==
    LET mf == MulFrac(Low(x, k), m, 0)
    IN  RoundHalfEven(m * IntOf(Shifted(x, k)) + mf[1], HalfCmp(mf[2]))

\* f'{n / d}' for the float n / d with d in {5, 10}: one decimal digit
strTenths(n, d) == ToString(n \div d) \o "." \o ToString(((n % d) * 10) \div d)

_to_k(x, exp, letter) ==
    IF QuotBelow(x, exp, 10) THEN strTenths(RoundScaled(x, exp, 10), 10) \o letter
    ELSE IF QuotBelow(x, exp, 20) THEN strTenths(RoundScaled(x, exp, 5), 5) \o letter
    ELSE IF QuotBelow(x, exp, Base) THEN ToString(RoundScaled(x, exp, 1)) \o letter
    ELSE None

Units == <<"K", "M", "G", "T", "P">>

RECURSIVE pretty_size_loop(_, _)
pretty_size_loop(x, e) ==
    IF e > Len(Units) THEN ToString(RoundScaled(x, Len(Units), 1)) \o "P"
    ELSE LET res == _to_k(x, e, Units[e])
         IN  IF res # None THEN res ELSE pretty_size_loop(x, e + 1)

pretty_size(x) ==
    IF LessThan(x, 100) THEN pystr(x) \o "B"
    ELSE pretty_size_loop(x, 1)

(***************************************************************************)
(* Comparison of strings as Python compares them, by code point.  The      *)
(* tables list the ASCII characters from "," (44) to "z" (122) that the    *)
(* strings of the model are made of.                                       *)
(***************************************************************************)
Ascii1 == ",-./0123456789:;<=>?@ABCDEFGHIJKLMNOPQRSTUVWXYZ["
Ascii2 == "]^_"
Ascii3 == "abcdefghijklmnopqrstuvwxyz"

ord ==
    [c \in {SubSeq(Ascii1, j, j) : j \in 1..Len(Ascii1)}
            \cup {SubSeq(Ascii2, j, j) : j \in 1..Len(Ascii2)}
            \cup {SubSeq(Ascii3, j, j) : j \in 1..Len(Ascii3)} |->
        IF \E j \in 1..Len(Ascii1) : SubSeq(Ascii1, j, j) = c
        THEN 43 + (CHOOSE j \in 1..Len(Ascii1) : SubSeq(Ascii1, j, j) = c)
        ELSE IF \E j \in 1..Len(Ascii2) : SubSeq(Ascii2, j, j) = c
        THEN 92 + (CHOOSE j \in 1..Len(Ascii2) : SubSeq(Ascii2, j, j) = c)
        ELSE 96 + (CHOOSE j \in 1..Len(Ascii3) : SubSeq(Ascii3, j, j) = c)]

RECURSIVE StrLessFrom(_, _, _)
StrLessFrom(a, b, j) ==
    IF j > Len(b) THEN FALSE
    ELSE IF j > Len(a) THEN TRUE
    ELSE LET ca == ord[SubSeq(a, j, j)]
             cb == ord[SubSeq(b, j, j)]
         IN  IF ca < cb THEN TRUE
             ELSE IF ca > cb THEN FALSE
             ELSE StrLessFrom(a, b, j + 1)

\* a < b for two Python strings
StrLess(a, b) == StrLessFrom(a, b, 1)

\* sorted(xs, key=...), the key given as a function of the element: Python's
\* sort is stable, an insertion sort that puts an element after the elements
\* whose key is not greater gives the same list
RECURSIVE InsertByKey(_, _, _)
InsertByKey(x, ys, key) ==
    IF ys = <<>> THEN <<x>>
    ELSE IF StrLess(key[x], key[Head(ys)]) THEN <<x>> \o ys
    ELSE <<Head(ys)>> \o InsertByKey(x, Tail(ys), key)

RECURSIVE SortedByKey(_, _)
SortedByKey(xs, key) ==
    IF xs = <<>> THEN <<>>
    ELSE InsertByKey(xs[Len(xs)], SortedByKey(SubSeq(xs, 1, Len(xs) - 1), key), key)

RECURSIVE join(_, _)
join(sep, xs) ==
    IF xs = <<>> THEN ""
    ELSE IF Len(xs) = 1 THEN xs[1]
    ELSE xs[1] \o sep \o join(sep, Tail(xs))

(***************************************************************************)
(* datetime.datetime and datetime.timedelta.  A datetime is its fields;    *)
(* tzinfo is NoTz for a naive datetime, else the UTC offset in seconds.    *)
(* A timedelta is normalised as Python normalises it: 0 <= seconds <       *)
(* 86400, 0 <= microseconds < 1000000, days of either sign.                *)
(***************************************************************************)
NoTz == 100000

IsLeap(y) == y % 4 = 0 /\ (y % 100 # 0 \/ y % 400 = 0)

DaysBeforeMonth == <<0, 31, 59, 90, 120, 151, 181, 212, 243, 273, 304, 334>>

toordinal(d) ==
    LET y == d.year - 1
    IN  y * 365 + y \div 4 - y \div 100 + y \div 400
        + DaysBeforeMonth[d.month]
        + (IF d.month > 2 /\ IsLeap(d.year) THEN 1 ELSE 0)
        + d.day

timedelta(days, seconds, microseconds) ==
    LET s  == seconds + microseconds \div 1000000
        us == microseconds % 1000000
    IN  [days |-> days + s \div 86400, seconds |-> s % 86400, microseconds |-> us]

\* a - b of two datetimes; Python raises TypeError when exactly one is naive
CanSubtract(a, b) == (a.tzinfo = NoTz) <=> (b.tzinfo = NoTz)

utcoffset(d) == IF d.tzinfo = NoTz THEN 0 ELSE d.tzinfo

datetime_sub(a, b) ==
    timedelta(toordinal(a) - toordinal(b),
              (a.hour * 3600 + a.minute * 60 + a.second)
                  - (b.hour * 3600 + b.minute * 60 + b.second)
                  - (utcoffset(a) - utcoffset(b)),
              a.microsecond - b.microsecond)

td_lt(a, b) ==
    \/ a.days < b.days
    \/ a.days = b.days /\ a.seconds < b.seconds
    \/ a.days = b.days /\ a.seconds = b.seconds /\ a.microseconds < b.microseconds

td_gt(a, b) == td_lt(b, a)

\* round(td.total_seconds()): the float is exact at .5, ties go to even
round_total_seconds(td) ==
    RoundHalfEven(td.days * 86400 + td.seconds,
                  IF td.microseconds > 500000 THEN 1
                  ELSE IF td.microseconds < 500000 THEN -1 ELSE 0)

\* str(timedelta(seconds=n))
td_str(n) ==
    LET days == n \div 86400
        rest == n % 86400
        hms  == ToString(rest \div 3600) \o ":" \o fmt02d((rest % 3600) \div 60)
                    \o ":" \o fmt02d(rest % 60)
    IN  IF days = 0 THEN hms
        ELSE IF days = 1 \/ days = -1 THEN ToString(days) \o " day, " \o hms
        ELSE ToString(days) \o " days, " \o hms

fmt06d(n) ==
    IF n < 10 THEN "00000" \o ToString(n)
    ELSE IF n < 100 THEN "0000" \o ToString(n)
    ELSE IF n < 1000 THEN "000" \o ToString(n)
    ELSE IF n < 10000 THEN "00" \o ToString(n)
    ELSE IF n < 100000 THEN "0" \o ToString(n)
    ELSE ToString(n)

\* strftime's %Y: the C library of the platform does not pad the year
strftime_Y(d) == ToString(d.year)

\* ctime.strftime("%Y%m%d%H%M%S%f")
strftime_key(d) ==
    strftime_Y(d) \o fmt02d(d.month) \o fmt02d(d.day) \o fmt02d(d.hour)
        \o fmt02d(d.minute) \o fmt02d(d.second) \o fmt06d(d.microsecond)

\* ctime.strftime("%Y.%m.%d %H:%M:%S")
_formatted_ctime(d) ==
    strftime_Y(d) \o "." \o fmt02d(d.month) \o "." \o fmt02d(d.day) \o " "
        \o fmt02d(d.hour) \o ":" \o fmt02d(d.minute) \o ":" \o fmt02d(d.second)

_time_show_delta_threshold == timedelta(0, 3600, 499999)

\* the threshold at one second; C10 tells the two apart
_time_dont_show_1_second == timedelta(0, 1, 0)

_time_dont_show_threshold == timedelta(0, 0, 999999)

\* the threshold at 60.5 seconds; C7 tells the two apart
_time_1_min_and_a_half == timedelta(0, 60, 500000)

_time_1_min == timedelta(0, 60, 499999)
_time_1_hour == timedelta(0, 60 * 60, 499999)

pretty_time(self, no_tree) ==
    IF ~self.has_parent \/ no_tree THEN _formatted_ctime(self.ctime)
    ELSE IF td_lt(self.time_delta[1], _time_show_delta_threshold)
    THEN IF td_lt(self.time_delta[1], _time_1_min)
         THEN "+" \o ToString(round_total_seconds(self.time_delta[1])) \o "s"
         ELSE IF td_lt(self.time_delta[1], _time_1_hour)
         THEN LET n == round_total_seconds(self.time_delta[1])
              IN  "+" \o ToString(n \div 60) \o ":" \o fmt02d(n % 60)
         ELSE "+" \o td_str(round_total_seconds(self.time_delta[1]))
    ELSE _formatted_ctime(self.ctime)

(***************************************************************************)
(* class Image.  A record of `docker inspect` (metadata) has the fields    *)
(* Id, Parent ("" when the image has none), RepoTags, Size and Created;    *)
(* Created is held as the datetime _parse_dt returns for it.  References   *)
(* to other Image objects (parent, children) are held as the ids of the    *)
(* images, and a value that may be None as a sequence of at most one       *)
(* element.                                                                *)
(***************************************************************************)
remove_sha256(s) == IF Len(s) <= 7 THEN "" ELSE SubSeq(s, 8, Len(s))

IsLatest(t) == Len(t) >= 7 /\ SubSeq(t, Len(t) - 6, Len(t)) = ":latest"

_sort_tags(a_tags) ==
    SortedByKey(a_tags,
        [t \in {a_tags[j] : j \in 1..Len(a_tags)} |->
            (IF IsLatest(t) THEN "A" ELSE "B") \o t])

Image(metadata) ==
    LET has_tags   == metadata.RepoTags # <<>>
        has_parent == metadata.Parent # ""
    IN  [metadata     |-> metadata,
         id           |-> remove_sha256(metadata.Id),
         has_tags     |-> has_tags,
         has_parent   |-> has_parent,
         parent_id    |-> IF has_parent THEN remove_sha256(metadata.Parent) ELSE None,
         size         |-> metadata.Size,
         ctime        |-> metadata.Created,
         _sorting_str |-> IF has_tags
                          THEN "A" \o join(",", _sort_tags(metadata.RepoTags))
                          ELSE "B" \o strftime_key(metadata.Created),
         \* set by find_immediate_family
         children     |-> <<>>,
         has_children |-> FALSE,
         parent       |-> None,
         size_delta   |-> <<>>,
         time_delta   |-> <<>>]

\* is_child_of with the two images exchanged; C1 tells the two apart
is_parent_of(self, a_image) == self.id = a_image.parent_id

is_child_of(self, a_image) == self.parent_id = a_image.id

(***************************************************************************)
(* class Images: the dict _id2img, which iterates in insertion order.      *)
(***************************************************************************)
Range(xs) == {xs[j] : j \in 1..Len(xs)}

RECURSIVE filter(_, _)
filter(xs, keep) ==
    IF xs = <<>> THEN <<>>
    ELSE IF Head(xs) \in keep THEN <<Head(xs)>> \o filter(Tail(xs), keep)
    ELSE filter(Tail(xs), keep)

\* Image.sorted over the images named by ids
Image_sorted(a_images, ids) ==
    SortedByKey(ids, [id \in Range(ids) |-> a_images._id2img[id]._sorting_str])

\* the exception find_immediate_family raises for self, "" when it returns
family_error(self, a_images) ==
    IF ~self.has_parent THEN ""
    ELSE IF self.parent_id \notin DOMAIN a_images._id2img THEN "KeyError"
    ELSE IF ~CanSubtract(self.ctime, a_images._id2img[self.parent_id].ctime)
    THEN "TypeError"
    ELSE ""

find_immediate_family(self, a_images) ==
    LET children == Image_sorted(a_images,
                        filter(a_images.order,
                            {id \in DOMAIN a_images._id2img :
                                is_child_of(a_images._id2img[id], self)}))
        parent   == a_images._id2img[self.parent_id]
    IN  [self EXCEPT
            !.children     = children,
            !.has_children = children # <<>>,
            !.parent       = IF self.has_parent THEN self.parent_id ELSE None,
            !.size_delta   = IF self.has_parent THEN <<self.size - parent.size>> ELSE <<>>,
            !.time_delta   = IF self.has_parent
                             THEN <<datetime_sub(self.ctime, parent.ctime)>> ELSE <<>>]

\* the dict comprehension {i.id: i for i in a_image_iterable}
RECURSIVE DictOrder(_)
DictOrder(imgs) ==
    IF imgs = <<>> THEN <<>>
    ELSE LET init == DictOrder(SubSeq(imgs, 1, Len(imgs) - 1))
             id   == imgs[Len(imgs)].id
         IN  IF id \in Range(init) THEN init ELSE Append(init, id)

Dict(imgs) ==
    [order   |-> DictOrder(imgs),
     _id2img |-> [id \in {imgs[j].id : j \in 1..Len(imgs)} |->
                    imgs[CHOOSE j \in 1..Len(imgs) :
                            /\ imgs[j].id = id
                            /\ \A k \in (j + 1)..Len(imgs) : imgs[k].id # id]]]

\* the exception Images.__init__ raises: the one of the first image, in the
\* order of the dict, whose find_immediate_family raises
RECURSIVE first_error(_, _)
first_error(d, ids) ==
    IF ids = <<>> THEN ""
    ELSE LET e == family_error(d._id2img[Head(ids)], d)
         IN  IF e # "" THEN e ELSE first_error(d, Tail(ids))

Images_error(imgs) == first_error(Dict(imgs), Dict(imgs).order)

\* Images.__init__, when it raises nothing
Images(imgs) ==
    LET d == Dict(imgs)
    IN  [order   |-> d.order,
         _id2img |-> [id \in DOMAIN d._id2img |-> find_immediate_family(d._id2img[id], d)]]

orphans(self) ==
    Image_sorted(self, filter(self.order,
        {id \in DOMAIN self._id2img : ~self._id2img[id].has_parent}))

spinsters(self) ==
    Image_sorted(self, filter(self.order,
        {id \in DOMAIN self._id2img : ~self._id2img[id].has_children}))

\* ancestors that stops at the parent; C3 tells the two apart
ancestors_parent_only(a_images, id) ==
    IF a_images._id2img[id].has_parent THEN <<a_images._id2img[id].parent>> ELSE <<>>

\* Image.ancestors: from the root down to the parent of the image
RECURSIVE ancestors(_, _)
ancestors(a_images, id) ==
    LET self == a_images._id2img[id]
    IN  IF self.has_parent
        THEN Append(ancestors(a_images, self.parent), self.parent)
        ELSE <<>>

\* Image.descendants: each child followed by its descendants
RECURSIVE descendants(_, _)
RECURSIVE descendants_of(_, _)
descendants_of(a_images, children) ==
    IF children = <<>> THEN <<>>
    ELSE <<Head(children)>> \o descendants(a_images, Head(children))
            \o descendants_of(a_images, Tail(children))

descendants(a_images, id) ==
    LET self == a_images._id2img[id]
    IN  IF self.has_children THEN descendants_of(a_images, self.children) ELSE <<>>

clone(self) == Image(self.metadata)


(***************************************************************************)
(* The labels and the renderer.  CLArgs is the record of the parsed        *)
(* command line; a text of several lines is the sequence of its lines.     *)
(***************************************************************************)
IdTrunc == 12

__repr__(self, args) ==
    LET id_str == IF self.has_tags THEN join(",", _sort_tags(self.metadata.RepoTags))
                  ELSE IF args.no_trunc THEN self.id
                  ELSE IF Len(self.id) <= IdTrunc THEN self.id
                  ELSE SubSeq(self.id, 1, IdTrunc)
        acc1   == IF \/ ~self.has_parent
                     \/ td_gt(self.time_delta[1], _time_dont_show_threshold)
                     \/ args.no_tree
                  THEN <<pretty_time(self, args.no_tree)>>
                  ELSE <<>>
        acc2   == IF ~self.has_parent \/ args.no_tree
                  THEN <<pretty_size(PyInt(self.size))>>
                  ELSE IF self.size_delta[1] # 0
                  THEN <<"+" \o pretty_size(PyInt(self.size_delta[1]))>>
                  ELSE <<>>
        acc    == acc1 \o acc2
    IN  IF acc # <<>> THEN id_str \o ": " \o join(", ", acc) ELSE id_str

\* AppendChild without the prefix; C8 tells the two apart
AppendChild_unprefixed(buffer, a_prefix, s) == buffer \o s

\* buffer += f'\n{a_prefix}{s}' for the lines s of a child
AppendChild(buffer, a_prefix, s) == buffer \o <<a_prefix \o Head(s)>> \o Tail(s)

RECURSIVE sprint_children(_, _, _, _, _, _)
RECURSIVE sprint_children_loop(_, _, _, _, _, _, _)
sprint_children_loop(a_images, args, children, j, a_prefix, a_dotted, buffer) ==
    IF j > Len(children) THEN buffer
    ELSE LET child   == children[j]
             is_last == j = Len(children)
             dotted  == child \in Range(a_dotted)
             middle_sub_branch == IF dotted THEN "+-* " ELSE "+---"
             last_sub_branch   == IF dotted THEN "'-* " ELSE "'---"
             s == IF is_last
                  THEN sprint_children(a_images, args, child,
                                       a_prefix \o "    ", last_sub_branch, a_dotted)
                  ELSE sprint_children(a_images, args, child,
                                       a_prefix \o "|   ", middle_sub_branch, a_dotted)
         IN  sprint_children_loop(a_images, args, children, j + 1, a_prefix, a_dotted,
                                  AppendChild(buffer, a_prefix, s))

sprint_children(a_images, args, id, a_prefix, a_branch, a_dotted) ==
    LET self == a_images._id2img[id]
    IN  sprint_children_loop(a_images, args, self.children, 1, a_prefix, a_dotted,
                             <<a_branch \o __repr__(self, args)>>)

\* Image.sprint_tree with the first ancestor drawn as the others; C9 tells the
\* two apart
Image_sprint_tree_uniform(a_images, args, id) ==
    LET self == a_images._id2img[id]
        anc  == ancestors(a_images, id)
        sub  == sprint_children(a_images, args, id,
                                IF self.has_parent THEN "    " ELSE "  ", "", <<>>)
    IN  IF self.has_parent
        THEN [j \in 1..Len(anc) |-> "+-" \o __repr__(a_images._id2img[anc[j]], args)]
             \o <<"'-* " \o Head(sub)>> \o Tail(sub)
        ELSE <<"* " \o Head(sub)>> \o Tail(sub)

\* Image.sprint_tree
Image_sprint_tree(a_images, args, id) ==
    LET self == a_images._id2img[id]
        anc  == ancestors(a_images, id)
        sub  == sprint_children(a_images, args, id,
                                IF self.has_parent THEN "    " ELSE "  ", "", <<>>)
    IN  IF self.has_parent
        THEN [j \in 1..Len(anc) |->
                (IF j = 1 THEN ",-" ELSE "+-") \o __repr__(a_images._id2img[anc[j]], args)]
             \o <<"'-* " \o Head(sub)>> \o Tail(sub)
        ELSE <<"* " \o Head(sub)>> \o Tail(sub)

\* '\n'.join(texts): the lines of the texts, one empty line when there is none
RECURSIVE Flatten(_)
Flatten(texts) == IF texts = <<>> THEN <<>> ELSE Head(texts) \o Flatten(Tail(texts))

join_lines(texts) == IF texts = <<>> THEN <<"">> ELSE Flatten(texts)

\* Images.sprint_tree
Images_sprint_tree(self, args, a_dotted) ==
    LET roots == orphans(self)
    IN  join_lines([j \in 1..Len(roots) |->
            IF roots[j] \in Range(a_dotted)
            THEN sprint_children(self, args, roots[j], "  ", "* ", a_dotted)
            ELSE sprint_children(self, args, roots[j], "", "", a_dotted)])

\* family without the descendants; C2 tells the two apart
family_upwards(self, a_id_iterable) ==
    UNION {{a_id_iterable[j]} \cup Range(ancestors(self, a_id_iterable[j])) :
              j \in 1..Len(a_id_iterable)}

\* the ids of set(chain.from_iterable(chain((i,), i.ancestors, i.descendants) ...))
family(self, a_id_iterable) ==
    UNION {{a_id_iterable[j]}
             \cup Range(ancestors(self, a_id_iterable[j]))
             \cup Range(descendants(self, a_id_iterable[j])) : j \in 1..Len(a_id_iterable)}

\* Images.cook_subimages; set_order is the order the set happens to iterate in
cook_images(self, set_order) == [j \in 1..Len(set_order) |-> clone(self._id2img[set_order[j]])]

cook_subimages(self, set_order) == Images(cook_images(self, set_order))

Perms(S) == {p \in [1..Cardinality(S) -> S] : \A a, b \in 1..Cardinality(S) : a # b => p[a] # p[b]}

\* the lines print_results prints
print_results(a_images, args, a_target_ids) ==
    IF args.show_orphans
    THEN join_lines([j \in 1..Len(orphans(a_images)) |->
                        <<__repr__(a_images._id2img[orphans(a_images)[j]], args)>>])
    ELSE IF args.show_spinsters
    THEN join_lines([j \in 1..Len(spinsters(a_images)) |->
                        <<__repr__(a_images._id2img[spinsters(a_images)[j]], args)>>])
    ELSE IF ~args.always_indent /\ Len(a_target_ids) = 1
    THEN Image_sprint_tree(a_images, args, a_target_ids[1])
    ELSE Images_sprint_tree(a_images, args, a_target_ids)


(***************************************************************************)
(* The inputs: what docker holds and the command line.                     *)
(***************************************************************************)
MaxImages == 4          \* images of a store whose parents all resolve
MaxTargets == 2         \* target images on the command line
MaxPermuted == 3        \* sets up to this size are iterated in every order
MaxSorted == 3          \* images of a store of the ordering pool

image_id(n) == ToString(n) \o "a0000000000ff"

Missing == MaxImages + 5    \* the number of an image docker does not hold

Digest(n) == IF n = 0 THEN "" ELSE "sha256:" \o image_id(n)

T0 == [year |-> 2020, month |-> 1, day |-> 1, hour |-> 10, minute |-> 0,
       second |-> 0, microsecond |-> 0, tzinfo |-> NoTz]

\* the images of the forest pool: the n-th image is tagged when n is even,
\* and created n minutes and 5 n seconds after T0
ProfileTags(n) ==
    IF n % 2 = 1 THEN <<>>
    ELSE <<"img" \o ToString(n) \o ":1", "img" \o ToString(n) \o ":latest">>

ProfileCreated(n) == [T0 EXCEPT !.minute = n, !.second = 5 * n]

ProfileSize(n) == 512 * n * n

\* the images of the ordering pool: tags, creation time
Kinds ==
    {[RepoTags |-> <<>>, Created |-> [T0 EXCEPT !.hour = 8]],
     [RepoTags |-> <<>>, Created |-> [T0 EXCEPT !.hour = 8, !.tzinfo = 0]],
     [RepoTags |-> <<>>, Created |-> [T0 EXCEPT !.hour = 10, !.tzinfo = 5 * 3600]]}

\* every image reaches an image without parent, or a missing one
RECURSIVE Rooted(_, _, _)
Rooted(parent, n, fuel) ==
    \/ n = 0
    \/ n = Missing
    \/ fuel > 0 /\ Rooted(parent, parent[n], fuel - 1)

ParentMaps(n, parents) ==
    {parent \in [1..n -> parents] :
        \A k \in 1..n : parent[k] # k /\ Rooted(parent, k, n)}

ForestStores ==
    UNION {{[k \in 1..n |->
                [Id |-> Digest(k), Parent |-> Digest(parent[k]),
                 RepoTags |-> ProfileTags(k), Size |-> ProfileSize(k),
                 Created |-> ProfileCreated(k)]] :
            parent \in ParentMaps(n, 0..n)} : n \in 0..MaxImages}

DanglingStores ==
    UNION {{[k \in 1..n |->
                [Id |-> Digest(k), Parent |-> Digest(parent[k]),
                 RepoTags |-> ProfileTags(k), Size |-> ProfileSize(k),
                 Created |-> ProfileCreated(k)]] :
            parent \in {q \in ParentMaps(n, (0..n) \cup {Missing}) :
                            \E k \in 1..n : q[k] = Missing}} : n \in 1..MaxImages}

SortedStores ==
    UNION {{[k \in 1..n |->
                [Id |-> Digest(k), Parent |-> Digest(parent[k]),
                 RepoTags |-> kind[k].RepoTags, Size |-> ProfileSize(k),
                 Created |-> kind[k].Created]] :
            parent \in ParentMaps(n, 0..n), kind \in [1..n -> Kinds]} : n \in 1..MaxSorted}

\* the command lines: at most one of -r, -l, -I, or -N
Flags == {"", "-r", "-l", "-I", "-N"}

RECURSIVE SeqsUpTo(_, _)
SeqsUpTo(S, n) ==
    IF n = 0 THEN {<<>>}
    ELSE SeqsUpTo(S, n - 1)
            \cup {Append(t, x) : t \in {u \in SeqsUpTo(S, n - 1) : Len(u) = n - 1}, x \in S}

\* CLArgs.__init__ for a command line of the pool
ParsedArgs(flag, targets) ==
    [show_orphans   |-> flag = "-r",
     show_spinsters |-> flag = "-l",
     always_indent  |-> flag = "-I",
     no_trunc       |-> flag = "-N",
     target_images  |-> targets,
     no_tree        |-> flag = "-r" \/ flag = "-l"]

NoImages == [order |-> <<>>, _id2img |-> <<>>]

Init ==
    /\ \/ /\ store \in ForestStores
          /\ \E flag \in Flags :
             \E targets \in SeqsUpTo({remove_sha256(store[k].Id) : k \in 1..Len(store)},
                                     MaxTargets) \cup {<<"nosuch">>} :
                CLArgs = ParsedArgs(flag, targets)
       \/ /\ store \in SortedStores
          /\ \E flag \in {"", "-r", "-l"} :
             \E targets \in SeqsUpTo({remove_sha256(store[k].Id) : k \in 1..Len(store)}, 1) :
                CLArgs = ParsedArgs(flag, targets)
       \/ /\ store \in DanglingStores
          /\ CLArgs = ParsedArgs("", <<>>)
    /\ pc = "main"
    /\ images = NoImages
    /\ target_ids = <<>>
    /\ subimages = NoImages
    /\ stdout = <<>>
    /\ stderr = <<>>
    /\ exit_code = -1
    /\ called = ""
    /\ bytes = PyInt(0)
    /\ node = Image([Id |-> Digest(1), Parent |-> "", RepoTags |-> <<>>,
                     Size |-> 0, Created |-> T0])
    /\ r = ""

(***************************************************************************)
(* main() and the boundary around it.                                      *)
(***************************************************************************)
\* except AppError as err: print(f'Error: {err}', file=sys.stderr); sys.exit(1)
AppError(msg) ==
    /\ stderr' = <<"Error: " \o msg>>
    /\ exit_code' = 1
    /\ pc' = "exit"

\* an exception that is no AppError leaves main: the interpreter prints the
\* traceback and ends with status 1
Uncaught(exc) ==
    /\ stderr' = <<"Traceback (most recent call last):", exc>>
    /\ exit_code' = 1
    /\ pc' = "exit"

\* images = Docker.instance.get_images(); `docker inspect` without an image
\* to inspect ends with a non-zero exit code
get_images ==
    /\ pc = "main"
    /\ LET imgs == [k \in 1..Len(store) |-> Image(store[k])]
       IN  IF store = <<>>
           THEN /\ AppError("Problem inspecting id(s) / tag(s):")
                /\ UNCHANGED images
           ELSE IF Images_error(imgs) # ""
           THEN /\ Uncaught(Images_error(imgs))
                /\ UNCHANGED images
           ELSE /\ images' = Images(imgs)
                /\ pc' = "images"
                /\ UNCHANGED <<stderr, exit_code>>
    /\ UNCHANGED <<store, CLArgs, target_ids, subimages, stdout, call_vars>>

\* target_ids = tuple(Docker.instance.ids(CLArgs.instance.target_images))
Known(name) == \E k \in 1..Len(store) : remove_sha256(store[k].Id) = name

get_target_ids ==
    /\ pc = "images"
    /\ CLArgs.target_images # <<>>
    /\ IF \A k \in 1..Len(CLArgs.target_images) : Known(CLArgs.target_images[k])
       THEN /\ target_ids' = CLArgs.target_images
            /\ pc' = "targets"
            /\ UNCHANGED <<stderr, exit_code>>
       ELSE /\ AppError("Problem getting id(s) / tag(s):")
            /\ UNCHANGED target_ids
    /\ UNCHANGED <<store, CLArgs, images, subimages, stdout, call_vars>>

\* print_results(images)
print_images ==
    /\ pc = "images"
    /\ CLArgs.target_images = <<>>
    /\ stdout' = print_results(images, CLArgs, <<>>)
    /\ exit_code' = 0
    /\ pc' = "exit"
    /\ UNCHANGED <<store, CLArgs, images, target_ids, subimages, stderr, call_vars>>

\* the orders a set of images may iterate in
SetOrders(S) ==
    IF Cardinality(S) <= MaxPermuted THEN Perms(S)
    ELSE {CHOOSE p \in Perms(S) : \A a \in 1..(Cardinality(S) - 1) : StrLess(p[a], p[a + 1])}

\* print_results(images.cook_subimages(target_ids), target_ids)
print_subimages ==
    /\ pc = "targets"
    /\ \E set_order \in SetOrders(family(images, target_ids)) :
          IF Images_error(cook_images(images, set_order)) # ""
          THEN /\ Uncaught(Images_error(cook_images(images, set_order)))
               /\ UNCHANGED <<subimages, stdout>>
          ELSE /\ subimages' = cook_subimages(images, set_order)
               /\ stdout' = print_results(subimages', CLArgs, target_ids)
               /\ exit_code' = 0
               /\ pc' = "exit"
               /\ UNCHANGED stderr
    /\ UNCHANGED <<store, CLArgs, images, target_ids, call_vars>>

Next == get_images \/ get_target_ids \/ print_images \/ print_subimages

Spec == Init /\ [][Next]_vars


(***************************************************************************)
(* The pretty-printers and the label, applied to arguments of their own.   *)
(***************************************************************************)
MaxShift == 5           \* a byte count is at most two digits times 1024^MaxShift

LowDigits == {0, 1, 50, 99, 100, 255, 256, 257, 500, 511, 512, 513, 767, 768, 769, 1023}
HighDigits == {0, 1, 2, 9, 10, 15, 19, 20, 500, 1023}

RECURSIVE Normal(_)
Normal(ls) ==
    IF ls = <<>> THEN <<>>
    ELSE IF ls[Len(ls)] = 0 THEN Normal(SubSeq(ls, 1, Len(ls) - 1))
    ELSE ls

ByteCounts ==
    {[neg |-> FALSE, limbs |-> Normal([j \in 1..k |-> 0] \o <<lo, hi>>)] :
        k \in 0..MaxShift, lo \in LowDigits, hi \in HighDigits}

Idle ==
    /\ pc = "exit"
    /\ store = <<>>
    /\ images = NoImages
    /\ target_ids = <<>>
    /\ subimages = NoImages
    /\ stdout = <<>>
    /\ stderr = <<>>
    /\ exit_code = 0

InitSize ==
    /\ Idle
    /\ CLArgs = ParsedArgs("", <<>>)
    /\ called = ""
    /\ bytes \in ByteCounts
    /\ node = Image([Id |-> Digest(1), Parent |-> "", RepoTags |-> <<>>,
                     Size |-> 0, Created |-> T0])
    /\ r = ""

call_pretty_size ==
    /\ called = ""
    /\ called' = "pretty_size"
    /\ r' = pretty_size(bytes)
    /\ UNCHANGED <<prog_vars, bytes, node>>

SpecSize == InitSize /\ [][call_pretty_size]_vars

\* creation times of a child whose parent was created at T0, as
\* <<day, hour, minute, second, microsecond, tzinfo>>
ChildTimes ==
    {<<1, 9, 59, 55, 0, NoTz>>,
     <<1, 10, 0, 0, 0, NoTz>>,
     <<1, 10, 0, 0, 999999, NoTz>>,
     <<1, 10, 0, 1, 0, NoTz>>,
     <<1, 10, 0, 1, 1, NoTz>>,
     <<1, 10, 0, 4, 500000, NoTz>>,
     <<1, 10, 0, 5, 0, NoTz>>,
     <<1, 10, 0, 5, 500000, NoTz>>,
     <<1, 10, 1, 0, 499998, NoTz>>,
     <<1, 10, 1, 0, 499999, NoTz>>,
     <<1, 10, 1, 0, 500000, NoTz>>,
     <<1, 10, 1, 30, 0, NoTz>>,
     <<1, 10, 59, 59, 600000, NoTz>>,
     <<1, 11, 0, 0, 499998, NoTz>>,
     <<1, 11, 0, 0, 499999, NoTz>>,
     <<1, 11, 0, 0, 500000, NoTz>>,
     <<1, 12, 0, 0, 0, NoTz>>,
     <<2, 10, 0, 0, 0, NoTz>>,
     <<1, 15, 0, 5, 0, 5 * 3600>>,
     <<1, 8, 0, 0, 0, 0 - 2 * 3600>>}

ChildSizes == {995, 1000, 1500, 3000000}

LabelStores ==
    {<<[Id |-> Digest(1), Parent |-> "", RepoTags |-> <<>>, Size |-> 1000,
        Created |-> [T0 EXCEPT !.tzinfo = IF t[6] = NoTz THEN NoTz ELSE 0]],
       [Id |-> Digest(2), Parent |-> Digest(1), RepoTags |-> tags, Size |-> size,
        Created |-> [year |-> 2020, month |-> 1, day |-> t[1], hour |-> t[2],
                     minute |-> t[3], second |-> t[4], microsecond |-> t[5],
                     tzinfo |-> t[6]]]>> :
        t \in ChildTimes, size \in ChildSizes, tags \in {<<>>, <<"b:1", "b:latest">>}}

LabelNodes ==
    UNION {{Images([j \in 1..Len(st) |-> Image(st[j])])._id2img[remove_sha256(st[k].Id)] :
                k \in 1..Len(st)} : st \in LabelStores}

InitLabel ==
    /\ Idle
    /\ \E flag \in Flags : CLArgs = ParsedArgs(flag, <<>>)
    /\ called = ""
    /\ bytes = PyInt(0)
    /\ node \in LabelNodes
    /\ r = ""

call_pretty_time ==
    /\ called = ""
    /\ called' = "pretty_time"
    /\ r' = pretty_time(node, CLArgs.no_tree)
    /\ UNCHANGED <<prog_vars, bytes, node>>

call_repr ==
    /\ called = ""
    /\ called' = "__repr__"
    /\ r' = __repr__(node, CLArgs)
    /\ UNCHANGED <<prog_vars, bytes, node>>

NextLabel == call_pretty_time \/ call_repr

SpecLabel == InitLabel /\ [][NextLabel]_vars


(***************************************************************************)
(* What the records say, read off the store without building anything.     *)
(***************************************************************************)
Built(forest) == forest.order # <<>>

RecordOf(id) == store[CHOOSE k \in 1..Len(store) : store[k].Id = "sha256:" \o id]

\* c's record names n as its parent
RecordedChild(c, n) == RecordOf(c).Parent = "sha256:" \o n

RecordedRoot(c) == RecordOf(c).Parent = ""

StoreIds == {id \in {image_id(k) : k \in 1..Len(store)} :
                \E k \in 1..Len(store) : store[k].Id = "sha256:" \o id}

\* the images c is derived from: the least set closed under `parent of`
RECURSIVE Above(_, _)
Above(S, fuel) ==
    LET more == S \cup {n \in StoreIds : \E c \in S : RecordedChild(c, n)}
    IN  IF fuel = 0 \/ more = S THEN S ELSE Above(more, fuel - 1)

StrictAncestors(x) ==
    Above({n \in StoreIds : RecordedChild(x, n)}, Len(store))

Descendants(x) == {c \in StoreIds : x \in StrictAncestors(c)}

\* how often c occurs in the children lists of a forest
Occurrences(forest, c) ==
    Cardinality({<<n, j>> \in (DOMAIN forest._id2img) \X (1..Len(forest.order)) :
                    /\ j <= Len(forest._id2img[n].children)
                    /\ forest._id2img[n].children[j] = c})

\* the links of a forest are the parent relation of the records of its images
LinksReproduceRecords(forest) ==
    LET ids == DOMAIN forest._id2img
    IN  /\ ids \subseteq StoreIds
        /\ \A n \in ids : forest._id2img[n].id = n
        /\ \A n \in ids, c \in ids :
              (c \in Range(forest._id2img[n].children)) <=> RecordedChild(c, n)
        /\ \A c \in ids :
              IF RecordedRoot(c)
              THEN /\ forest._id2img[c].parent = None
                   /\ Occurrences(forest, c) = 0
              ELSE /\ forest._id2img[c].parent \in ids
                   /\ RecordedChild(c, forest._id2img[c].parent)
                   /\ Occurrences(forest, c) = 1

(***************************************************************************)
(* C1.  After Images.__init__ and find_immediate_family on every image,    *)
(* the links are the parent relation of the records: c is among the        *)
(* children of n exactly when c's record names n as parent, the parent of  *)
(* c is that image (None exactly when the record names none), and an image *)
(* with a parent occurs once in the children of exactly one image, an      *)
(* image without parent in none.  It holds of main's images, which hold    *)
(* every record of the store, and of the images cook_subimages rebuilds.   *)
(***************************************************************************)
C1_BuildReproducesParents ==
    /\ Built(images) =>
          /\ DOMAIN images._id2img = StoreIds
          /\ LinksReproduceRecords(images)
    /\ Built(subimages) => LinksReproduceRecords(subimages)

C1_Witness ==
    /\ pc = "images"
    /\ \E n \in DOMAIN images._id2img :
          /\ Len(images._id2img[n].children) >= 2
          /\ images._id2img[n].has_parent

(***************************************************************************)
(* C2.  For one target x, the images cook_subimages returns are x, the     *)
(* images x is derived from and the images derived from x, and no other    *)
(* (no sibling of x or of an ancestor); extracting x again from the result *)
(* gives the same images with the same parent and children links,          *)
(* whatever order the set iterates in.                                     *)
(***************************************************************************)
SameLinks(f, g) ==
    /\ DOMAIN f._id2img = DOMAIN g._id2img
    /\ \A n \in DOMAIN f._id2img :
          /\ f._id2img[n].parent = g._id2img[n].parent
          /\ Range(f._id2img[n].children) = Range(g._id2img[n].children)

C2_SubgraphExactAndFixedPoint ==
    (Built(subimages) /\ Len(target_ids) = 1) =>
        LET x == target_ids[1]
        IN  /\ DOMAIN subimages._id2img = {x} \cup StrictAncestors(x) \cup Descendants(x)
            /\ \A n \in DOMAIN subimages._id2img :
                  n # x => (n \in StrictAncestors(x)) # (n \in Descendants(x))
            /\ family(subimages, target_ids) = DOMAIN subimages._id2img
            /\ \A set_order \in SetOrders(family(subimages, target_ids)) :
                  /\ Images_error(cook_images(subimages, set_order)) = ""
                  /\ SameLinks(cook_subimages(subimages, set_order), subimages)

\* a target with a parent, a child and a sibling that is left out
C2_Witness ==
    /\ Built(subimages)
    /\ Len(target_ids) = 1
    /\ subimages._id2img[target_ids[1]].has_parent
    /\ subimages._id2img[target_ids[1]].has_children
    /\ \E n \in StoreIds :
          /\ n \notin DOMAIN subimages._id2img
          /\ RecordOf(n).Parent = RecordOf(target_ids[1]).Parent

(***************************************************************************)
(* C3.  For any targets, repeated and overlapping ones too, the images     *)
(* cook_subimages returns are closed under parent: an image with a parent  *)
(* has it in the same forest, rebuilding the links raises nothing, and an  *)
(* image without parent there has none in the store either.                *)
(***************************************************************************)
C3_SubgraphParentClosed ==
    /\ (pc = "exit" /\ target_ids # <<>>) => (exit_code = 0 /\ stderr = <<>> /\ Built(subimages))
    /\ Built(subimages) =>
          /\ Range(target_ids) \subseteq DOMAIN subimages._id2img
          /\ \A n \in DOMAIN subimages._id2img :
                /\ ~RecordedRoot(n) =>
                      /\ subimages._id2img[n].has_parent
                      /\ subimages._id2img[n].parent_id \in DOMAIN subimages._id2img
                /\ ~subimages._id2img[n].has_parent => ~images._id2img[n].has_parent
          /\ Range(orphans(subimages)) \subseteq Range(orphans(images))

\* two distinct targets under different parents, and a repeated target
C3_Witness ==
    /\ Built(subimages)
    /\ Len(target_ids) = 2
    /\ target_ids[1] # target_ids[2]
    /\ subimages._id2img[target_ids[1]].has_parent
    /\ subimages._id2img[target_ids[2]].has_parent
    /\ target_ids[1] \notin StrictAncestors(target_ids[2])
    /\ target_ids[2] \notin StrictAncestors(target_ids[1])

(***************************************************************************)
(* C4.  When a record names a parent that no record of the store has,      *)
(* building the forest fails, and the failure is reported at the boundary  *)
(* as an application error: a message that begins with "Error: " on the    *)
(* standard error and exit status 1.                                       *)
(***************************************************************************)
HasDangling ==
    \E k \in 1..Len(store) :
        /\ store[k].Parent # ""
        /\ \A j \in 1..Len(store) : store[j].Id # store[k].Parent

C4_DanglingReportedAsAppError ==
    (HasDangling /\ pc # "main") =>
        /\ pc = "exit"
        /\ ~Built(images)
        /\ exit_code = 1
        /\ stderr # <<>>
        /\ Len(stderr[1]) >= 7
        /\ SubSeq(stderr[1], 1, 7) = "Error: "


(***************************************************************************)
(* C5.  In every forest built, the children of each image, the orphans     *)
(* (roots) and the spinsters (leaves) are in the global order: an image    *)
(* with a tag precedes every image without, the images without tags are in *)
(* ascending order of their creation time, and sorting a sorted list again *)
(* changes nothing.                                                        *)
(***************************************************************************)
Tagged(id) == RecordOf(id).RepoTags # <<>>

\* a < b for two datetimes, as Python compares them where it compares them:
\* two aware datetimes by their instants
CreatedBefore(a, b) ==
    /\ CanSubtract(a, b)
    /\ datetime_sub(a, b).days < 0

InGlobalOrder(forest, ids) ==
    /\ \A a, b \in 1..Len(ids) :
          a < b =>
            /\ ~(~Tagged(ids[a]) /\ Tagged(ids[b]))
            /\ (~Tagged(ids[a]) /\ ~Tagged(ids[b])) =>
                  ~CreatedBefore(RecordOf(ids[b]).Created, RecordOf(ids[a]).Created)
    /\ Image_sorted(forest, ids) = ids

ListingsInGlobalOrder(forest) ==
    /\ \A n \in DOMAIN forest._id2img : InGlobalOrder(forest, forest._id2img[n].children)
    /\ InGlobalOrder(forest, orphans(forest))
    /\ InGlobalOrder(forest, spinsters(forest))

C5_ListingsSorted ==
    /\ Built(images) => ListingsInGlobalOrder(images)
    /\ Built(subimages) => ListingsInGlobalOrder(subimages)

(***************************************************************************)
(* The line of an image in a rendered tree, read off the links: the        *)
(* indentation of the tree, one segment for each image between the top of  *)
(* the tree and the parent of the image ("|   " under an image that is not *)
(* the last child of its parent, "    " under a last child), the connector *)
(* and the label.                                                          *)
(***************************************************************************)
\* the images from top down to n, top excluded
RECURSIVE PathBelow(_, _, _)
PathBelow(forest, top, n) ==
    IF n = top THEN <<>>
    ELSE Append(PathBelow(forest, top, forest._id2img[n].parent), n)

IsLastChild(forest, c) ==
    LET siblings == forest._id2img[forest._id2img[c].parent].children
    IN  siblings[Len(siblings)] = c

RECURSIVE Segments(_, _)
Segments(forest, path) ==
    IF Len(path) <= 1 THEN ""
    ELSE (IF IsLastChild(forest, Head(path)) THEN "    " ELSE "|   ")
            \o Segments(forest, Tail(path))

ChildLine(forest, top, n, indent, highlighted) ==
    indent \o Segments(forest, PathBelow(forest, top, n))
        \o (IF IsLastChild(forest, n) THEN "'" ELSE "+")
        \o (IF n \in highlighted THEN "-* " ELSE "---")
        \o __repr__(forest._id2img[n], CLArgs)

\* the root an image hangs from
RECURSIVE RootOf(_, _)
RootOf(forest, n) ==
    IF forest._id2img[n].has_parent THEN RootOf(forest, forest._id2img[n].parent) ELSE n

\* the images in pre-order: each root followed by its descendants
Preorder(forest) ==
    Flatten([j \in 1..Len(orphans(forest)) |->
                <<orphans(forest)[j]>> \o descendants(forest, orphans(forest)[j])])

Printed == IF target_ids # <<>> THEN subimages ELSE images

StartsWith(line, prefix) ==
    Len(line) >= Len(prefix) /\ SubSeq(line, 1, Len(prefix)) = prefix

(***************************************************************************)
(* C8.  Images.sprint_tree prints one line for each image of the forest:   *)
(* the roots in their order, each image followed by its subtree in         *)
(* pre-order with the children in their order.  A child that is not the    *)
(* last of its parent has the connector "+", and its descendants continue  *)
(* under the prefix and "|   "; the last child has "'" and its descendants *)
(* continue under the prefix and "    "; the connector has the bullet      *)
(* ("+-* ", "'-* ") exactly when the child is highlighted.  The chain A, B *)
(* (parent A), C (parent B) without highlights prints A, "'---" B and      *)
(* "    '---" C.                                                           *)
(***************************************************************************)
ForestView ==
    /\ pc = "exit"
    /\ exit_code = 0
    /\ ~CLArgs.show_orphans
    /\ ~CLArgs.show_spinsters
    /\ CLArgs.always_indent \/ Len(target_ids) # 1

IsChain ==
    /\ Len(store) = 3
    /\ \E a, b, c \in StoreIds :
          /\ RecordedRoot(a)
          /\ RecordedChild(b, a)
          /\ RecordedChild(c, b)

C8_ForestRendering ==
    ForestView =>
        LET forest == Printed
            nodes  == Preorder(forest)
            marked == Range(target_ids)
        IN  /\ Len(stdout) = Cardinality(DOMAIN forest._id2img)
            /\ Len(nodes) = Len(stdout)
            /\ \A j \in 1..Len(nodes) :
                  LET n    == nodes[j]
                      root == RootOf(forest, n)
                  IN  stdout[j] =
                        IF n = root
                        THEN (IF n \in marked THEN "* " ELSE "")
                                \o __repr__(forest._id2img[n], CLArgs)
                        ELSE ChildLine(forest, root, n,
                                       IF root \in marked THEN "  " ELSE "", marked)
            /\ (IsChain /\ target_ids = <<>>) =>
                  \E a, b, c \in StoreIds :
                      /\ RecordedRoot(a) /\ RecordedChild(b, a) /\ RecordedChild(c, b)
                      /\ stdout = <<__repr__(images._id2img[a], CLArgs),
                                    "'---" \o __repr__(images._id2img[b], CLArgs),
                                    "    '---" \o __repr__(images._id2img[c], CLArgs)>>

\* a highlighted image under a child that is not the last child of its parent
C8_Witness ==
    /\ ForestView
    /\ \E n \in DOMAIN Printed._id2img :
          /\ Printed._id2img[n].has_parent
          /\ Printed._id2img[Printed._id2img[n].parent].has_parent
          /\ ~IsLastChild(Printed, Printed._id2img[n].parent)
          /\ n \in Range(target_ids)
          /\ \E j \in 1..Len(stdout) : StartsWith(stdout[j], "|   '-* ")

(***************************************************************************)
(* C9.  Image.sprint_tree of an image with k >= 1 ancestors prints the k   *)
(* ancestors from the root down to the parent, the first after ",-" and    *)
(* the others after "+-", then the image after "'-* " and its subtree;     *)
(* for an image without ancestors it prints "* ", the image and its        *)
(* subtree.  As claimed, it is the view of every run with one target and   *)
(* without -I.                                                             *)
(***************************************************************************)
SingleTargetLayout ==
    LET x     == target_ids[1]
        top   == RootOf(subimages, x)
        above == <<top>> \o PathBelow(subimages, top, x)
        k     == Len(above) - 1
        below == descendants(subimages, x)
    IN  /\ Len(stdout) = k + 1 + Cardinality(Descendants(x))
        /\ Len(below) = Cardinality(Descendants(x))
        /\ k = Cardinality(StrictAncestors(x))
        /\ \A j \in 1..k :
              stdout[j] = (IF j = 1 THEN ",-" ELSE "+-")
                              \o __repr__(subimages._id2img[above[j]], CLArgs)
        /\ stdout[k + 1] = (IF k >= 1 THEN "'-* " ELSE "* ")
                              \o __repr__(subimages._id2img[x], CLArgs)
        /\ \A j \in 1..Len(below) :
              stdout[k + 1 + j] =
                  ChildLine(subimages, x, below[j], IF k >= 1 THEN "    " ELSE "  ", {})

Printing == pc = "exit" /\ exit_code = 0

C9_SingleTargetViewAsClaimed ==
    (Printing /\ target_ids # <<>>) =>
        /\ (Len(target_ids) = 1 /\ ~CLArgs.always_indent) => SingleTargetLayout
        /\ (StartsWith(stdout[1], ",-") /\ subimages._id2img[target_ids[1]].has_parent)
              => (Len(target_ids) = 1 /\ ~CLArgs.always_indent)

(***************************************************************************)
(* C9, amended.  The same layout, and it is the view of the runs with one  *)
(* target and none of -I, -r and -l: with -r or -l the roots or the leaves *)
(* are listed instead.                                                     *)
(***************************************************************************)
SingleTargetChosen ==
    /\ Len(target_ids) = 1
    /\ ~CLArgs.always_indent
    /\ ~CLArgs.show_orphans
    /\ ~CLArgs.show_spinsters

C9_SingleTargetView ==
    (Printing /\ target_ids # <<>>) =>
        /\ SingleTargetChosen => SingleTargetLayout
        /\ ~SingleTargetChosen => \A j \in 1..Len(stdout) : ~StartsWith(stdout[j], ",-")
        /\ (SingleTargetChosen /\ subimages._id2img[target_ids[1]].has_parent)
              => StartsWith(stdout[1], ",-")

\* a target with two ancestors and a grandchild's worth of subtree
C9_Witness ==
    /\ Printing
    /\ SingleTargetChosen
    /\ Cardinality(StrictAncestors(target_ids[1])) = 2
    /\ subimages._id2img[target_ids[1]].has_children
    /\ StartsWith(stdout[1], ",-")
    /\ StartsWith(stdout[2], "+-")
    /\ StartsWith(stdout[3], "'-* ")
    /\ StartsWith(stdout[4], "    '---")


(***************************************************************************)
(* The size a byte count is printed as, read as arithmetic on the count.   *)
(* The counts drawn for pretty_size have at most two digits in base 1024   *)
(* that are not 0, and these are adjacent, so that a count in the unit     *)
(* 1024^u is n / 1024 for an integer n.                                    *)
(***************************************************************************)
DigitAt(x, j) == IF j >= 1 /\ j <= Len(x.limbs) THEN x.limbs[j] ELSE 0

\* the first unit in which the count is below 1024
UnitOf(x) == IF Len(x.limbs) <= 2 THEN 1 ELSE Len(x.limbs) - 1

\* 1024 times the count in the unit u
Per1024(x, u) == DigitAt(x, u + 1) * 1024 + DigitAt(x, u)

WholeBelow(x, u) == \A j \in 1..(u - 1) : DigitAt(x, j) = 0

\* n is the integer nearest to g * v / 1024, the even one of two
NearestTo(n, g, v) ==
    /\ 2 * (g * v - 1024 * n) <= 1024
    /\ 2 * (1024 * n - g * v) <= 1024
    /\ (2 * (g * v - 1024 * n) = 1024 \/ 2 * (1024 * n - g * v) = 1024) => n % 2 = 0

Nearest(g, v) ==
    CHOOSE n \in {(g * v) \div 1024, (g * v) \div 1024 + 1} : NearestTo(n, g, v)

SizeText(x) ==
    IF Len(x.limbs) <= 1 /\ DigitAt(x, 1) < 100 THEN ToString(DigitAt(x, 1)) \o "B"
    ELSE IF UnitOf(x) > 5
    THEN LET whole == DigitAt(x, 8) * 1024 * 1024 + DigitAt(x, 7) * 1024 + DigitAt(x, 6)
         IN  ToString((whole - (whole % 2))
                        + Nearest(1, (whole % 2) * 1024 + DigitAt(x, 5))) \o "P"
    ELSE LET u == UnitOf(x)
             v == Per1024(x, u)
             letter == <<"K", "M", "G", "T", "P">>[u]
         IN  IF v < 10 * 1024
             THEN ToString(Nearest(10, v) \div 10) \o "."
                      \o ToString(Nearest(10, v) % 10) \o letter
             ELSE IF v < 20 * 1024
             THEN ToString(Nearest(5, v) \div 5) \o "."
                      \o ToString(2 * (Nearest(5, v) % 5)) \o letter
             ELSE ToString(Nearest(1, v)) \o letter

(***************************************************************************)
(* C6.  pretty_size of a non-negative count below 100 is the count and     *)
(* "B"; of another count it is the count in the first unit of K, M, G, T,  *)
(* P in which it is below 1024, to the nearest tenth when that is below    *)
(* 10, to the nearest fifth when it is below 20 and to the nearest integer *)
(* otherwise, and the rounded count of P when it is below 1024 in no unit. *)
(* 50 gives "50B", 500 "0.5K", 2048 "2.0K", 15360 "15.0K", 512000 "500K"   *)
(* and 1048576 "1.0M".                                                     *)
(***************************************************************************)
C6_PrettySize ==
    called = "pretty_size" =>
        /\ ~bytes.neg
        /\ UnitOf(bytes) <= 5 => WholeBelow(bytes, UnitOf(bytes))
        /\ UnitOf(bytes) > 5 => WholeBelow(bytes, 5)
        /\ r = SizeText(bytes)
        /\ bytes = PyInt(50) => r = "50B"
        /\ bytes = PyInt(500) => r = "0.5K"
        /\ bytes = PyInt(2048) => r = "2.0K"
        /\ bytes = PyInt(15360) => r = "15.0K"
        /\ bytes = PyInt(512000) => r = "500K"
        /\ bytes = PyInt(1048576) => r = "1.0M"

\* 10.5K is halfway between 10.4K and 10.6K
C6_Witness ==
    /\ called = "pretty_size"
    /\ bytes = PyInt(10 * 1024 + 512)
    /\ r = "10.4K"

(***************************************************************************)
(* The time between an image and its parent, in whole seconds and          *)
(* microseconds.                                                           *)
(***************************************************************************)
Secs(d) == d.days * 86400 + d.seconds

\* d < s seconds and us microseconds
Under(d, s, us) == Secs(d) < s \/ (Secs(d) = s /\ d.microseconds < us)

\* round(d.total_seconds())
Rounded(d) ==
    IF d.microseconds < 500000 THEN Secs(d)
    ELSE IF d.microseconds > 500000 THEN Secs(d) + 1
    ELSE IF Secs(d) % 2 = 0 THEN Secs(d) ELSE Secs(d) + 1

InSeconds(d) == "+" \o ToString(Rounded(d)) \o "s"

InMinutes(d) ==
    "+" \o ToString(Rounded(d) \div 60) \o ":"
        \o (IF Rounded(d) % 60 < 10 THEN "0" ELSE "") \o ToString(Rounded(d) % 60)

Relative == node.has_parent /\ ~CLArgs.no_tree

\* pretty_time with the relative forms below min and hour, each a number of
\* microseconds after the 60 seconds and the 3600 seconds
TimeRule(min, hour) ==
    called = "pretty_time" =>
        /\ ~Relative => r = _formatted_ctime(node.ctime)
        /\ Relative =>
              LET d == node.time_delta[1]
              IN  /\ ~Under(d, 3600, hour) => r = _formatted_ctime(node.ctime)
                  /\ Under(d, 60, min) => r = InSeconds(d)
                  /\ (~Under(d, 60, min) /\ Under(d, 3600, hour)) => r = InMinutes(d)
                  /\ d = timedelta(0, 5, 0) => r = "+5s"
                  /\ d = timedelta(0, 90, 0) => r = "+1:30"
                  /\ d = timedelta(0, 7200, 0) => r = "2020.01.01 12:00:00"

(***************************************************************************)
(* C7, as claimed.  pretty_time of a root, or in a flat listing (-r, -l),   *)
(* is the creation time; of another image it is the creation time when the *)
(* image is 1 hour and 0.5 s or more after its parent, "+Ns" when it is    *)
(* less than 60.5 s after it and "+m:ss" in between.                       *)
(***************************************************************************)
C7_PrettyTimeAsClaimed == TimeRule(500000, 500000)

(***************************************************************************)
(* C7, amended.  The same with the bounds the code has, a microsecond      *)
(* lower: the creation time from 1 hour and 0.499999 s on, "+Ns" below     *)
(* 60.499999 s and "+m:ss" in between.  5 s after the parent gives "+5s",  *)
(* 90 s gives "+1:30" and 2 hours give the creation time.                  *)
(***************************************************************************)
C7_PrettyTime == TimeRule(499999, 499999)

\* 60.499999 s after the parent: in minutes, not in seconds
C7_Witness ==
    /\ called = "pretty_time"
    /\ Relative
    /\ node.time_delta[1] = timedelta(0, 60, 499999)
    /\ r = "+1:00"

(***************************************************************************)
(* The label with the decorations the rule gives: the time, when shown is  *)
(* true of the time since the parent, and the size or the size delta.      *)
(***************************************************************************)
BareLabel ==
    IF node.has_tags THEN join(",", _sort_tags(node.metadata.RepoTags))
    ELSE IF CLArgs.no_trunc THEN node.id
    ELSE SubSeq(node.id, 1, 12)

LabelRule(time_shown) ==
    called = "__repr__" =>
        LET time == IF ~Relative \/ time_shown
                    THEN <<pretty_time(node, CLArgs.no_tree)>> ELSE <<>>
            size == IF ~Relative THEN <<pretty_size(PyInt(node.size))>>
                    ELSE IF node.size_delta[1] # 0
                    THEN <<"+" \o pretty_size(PyInt(node.size_delta[1]))>>
                    ELSE <<>>
        IN  /\ r = BareLabel \o (IF time \o size = <<>> THEN ""
                                 ELSE ": " \o join(", ", time \o size))
            /\ (Relative /\ ~time_shown /\ node.size_delta[1] = 0) => r = BareLabel

(***************************************************************************)
(* C10, as claimed.  The label has the creation time exactly when the      *)
(* image is a root, or the listing is flat (-r, -l), or the image is more  *)
(* than 1 second after its parent; the size exactly when the image is a    *)
(* root or the listing is flat, and otherwise "+" and the size delta when  *)
(* that is not 0; an image with a parent, in a tree, at most 1 second      *)
(* after its parent and of its size is printed bare.                       *)
(***************************************************************************)
C10_LabelAsClaimed ==
    LabelRule(node.has_parent /\ ~Under(node.time_delta[1], 1, 1))

(***************************************************************************)
(* C10, amended.  The same with the bound the code has: the time is in the *)
(* label from 1 second after the parent on (more than 0.999999 s), and the *)
(* image is printed bare when it is less than 1 second after its parent.   *)
(***************************************************************************)
C10_Label ==
    LabelRule(node.has_parent /\ ~Under(node.time_delta[1], 1, 0))

\* exactly 1 second after the parent and of the parent's size
C10_Witness ==
    /\ called = "__repr__"
    /\ Relative
    /\ ~node.has_tags
    /\ node.time_delta[1] = timedelta(0, 1, 0)
    /\ node.size_delta[1] = 0
    /\ r = "2a0000000000: +1s"

=============================================================================
